---- MODULE Spec2Model ----
(***************************************************************************)
(* Model of the house-curve registry and the curve generator of            *)
(* Tuning-Companion (logic/curves.py, logic/filters.py).                   *)
(*                                                                         *)
(* Units: decibel samples are integers in tenths of a dB (24.0 dB = 240),  *)
(* frequencies and cutoffs are integers in tenths of a Hz (31.5 Hz = 315). *)
(* numpy arrays are objects: the registry dictionaries hold references     *)
(* into `heap`, so that sharing between two names is a state the model can *)
(* express and `.copy()` is what prevents it.                              *)
(* The logarithm and the scipy prototypes are not evaluated: the dB        *)
(* contribution of a filter stage at a grid frequency is kept as the term  *)
(* [family, btype, n, f_c, f, power] it is computed from, appended to the  *)
(* sample in the order the additions are performed.                        *)
(* `mag` is the response the last direct call of a magnitude function      *)
(* returned; `returned` is the curve of the last generate_target_curve.    *)
(***************************************************************************)
EXTENDS Integers, Sequences, FiniteSets, TLC

VARIABLES heap, HOUSE_CURVES, CUSTOM_CURVES, selected_curve_name,
          returned, call, outcome, mag

vars == <<heap, HOUSE_CURVES, CUSTOM_CURVES, selected_curve_name,
          returned, call, outcome, mag>>

registry == <<heap, HOUSE_CURVES, CUSTOM_CURVES, selected_curve_name>>

----------------------------------------------------------------------------
(* Bound of the inputs the environment supplies.                           *)

\* update_custom_curve is tried with indices up to MaxOver past either end
\* of the grid.
MaxOver == 1

----------------------------------------------------------------------------
(* Constants of the program.                                               *)

FREQUENCIES ==
    << 200, 250, 315, 400, 500, 630, 800, 1000, 1250, 1600,
       2000, 2500, 3150, 4000, 5000, 6300, 8000, 10000, 12500,
       16000, 20000, 25000, 31500, 40000, 50000, 63000, 80000,
       100000, 125000, 160000, 200000 >>

DEFAULT_HOUSE_CURVE ==
    << 240, 220, 200, 160, 110, 80, 60, 40, 30, 15,
       5, 0, -10, -20, -23, -25, -25, -30, -33, -36,
       -40, -45, -50, -55, -60, -68, -75, -80, -88, -95,
       -100 >>

FILTER_TYPES == {"None", "Butterworth", "Linkwitz-Riley", "Bessel", "Chebyshev"}

HouseName == "House Curve"

CustomNames == {"Custom1", "Custom2", "Custom3"}

\* Outcomes of a call: normal return, or the exception it raised.
Ok == "ok"
UnknownCurveName == "UnknownCurveName"        \* ValueError, curves.py:52
NotCustom == "NotCustom"                      \* ValueError, curves.py:81, 90
IndexOutOfRange == "IndexOutOfRange"          \* IndexError of the ndarray
InvalidFilterFamily == "InvalidFilterFamily"  \* ValueError, filters.py:98, 119
KeyError == "KeyError"                        \* dict lookup of a missing key

----------------------------------------------------------------------------
(* ndarray values and objects.                                             *)

\* A sample that no filter stage has been added to.
Flat(db) == [db |-> db, gains |-> <<>>]

FlatArray(dbs) == [i \in 1..Len(dbs) |-> Flat(dbs[i])]

\* np.zeros_like(FREQUENCIES, dtype=float)
zeros_like(freq) == [i \in 1..Len(freq) |-> Flat(0)]

NoRef == 0

\* An array handle: ref is the heap address, or NoRef for an array that has
\* just been created and is not yet bound to anything.
Handle(ref, val) == [ref |-> ref, val |-> val]

\* ndarray.copy(): a new object with the same samples.
ndarray_copy(a) == Handle(NoRef, a.val)

Range(a) == {a[x] : x \in DOMAIN a}

\* The lowest address not in use.
Alloc(used) ==
    CHOOSE r \in 1..(Cardinality(used) + 1) :
        r \notin used /\ \A q \in 1..(r - 1) : q \in used

\* The address a handle is stored at when it is bound while the objects at
\* `live` stay referenced: its own if it is an existing object, a free one
\* if it is new.
Place(a, live) == IF a.ref = NoRef THEN Alloc(live) ELSE a.ref

\* The heap once `a` is stored at address r and only `live` and r stay
\* referenced (unreferenced arrays are reclaimed).
Store(h, a, r, live) ==
    [q \in live \cup {r} |-> IF q = r THEN a.val ELSE h[q]]

----------------------------------------------------------------------------
(* logic/filters.py                                                        *)

\* FilterConfig.__init__: stores its three arguments as given.
FilterConfig(filter_type, slope, cutoff) ==
    [err |-> Ok,
     obj |-> [filter_type |-> filter_type, slope |-> slope, cutoff |-> cutoff]]

Max(a, b) == IF a >= b THEN a ELSE b

\* The magnitude of one filter at one frequency, as the term it is computed
\* from; power is the exponent the magnitude is raised to.
Mag(family, btype, n, f_c, f) ==
    [family |-> family, btype |-> btype, n |-> n, f_c |-> f_c, f |-> f,
     power |-> 1]

\* b ** e for a whole exponent.
RECURSIVE Pow(_, _)
Pow(b, e) == IF e <= 0 THEN 1 ELSE b * Pow(b, e - 1)

\* Variant of the Butterworth expression: the 1 under the root is left out.
HSquared_nounit(t) ==
    IF t.btype = "low"
    THEN [num |-> Pow(t.f_c, 2 * t.n), den |-> Pow(t.f, 2 * t.n)]
    ELSE [num |-> Pow(t.f, 2 * t.n), den |-> Pow(t.f_c, 2 * t.n)]

\* The value of a Butterworth term before its power is applied, squared:
\* 1 / (1 + (f/f_c)**(2*n)) for a low-pass and 1 / (1 + (f_c/f)**(2*n)) for
\* a high-pass, as the fraction num/den of whole numbers (f and f_c whole
\* and positive).  The magnitude is this value to the power/2.
HSquared(t) ==
    IF t.btype = "low"
    THEN [num |-> Pow(t.f_c, 2 * t.n),
          den |-> Pow(t.f_c, 2 * t.n) + Pow(t.f, 2 * t.n)]
    ELSE [num |-> Pow(t.f, 2 * t.n),
          den |-> Pow(t.f, 2 * t.n) + Pow(t.f_c, 2 * t.n)]

\* Variant of butterworth_lp_mag: the order is not clamped.
butterworth_lp_mag_nomax(f, f_c, slope) ==
    LET n == slope \div 6
    IN  [i \in 1..Len(f) |-> Mag("Butterworth", "low", n, f_c, f[i])]

butterworth_lp_mag(f, f_c, slope) ==
    LET n == Max(1, slope \div 6)
    IN  [i \in 1..Len(f) |-> Mag("Butterworth", "low", n, f_c, f[i])]

\* Variant of butterworth_hp_mag: the ratio is taken the low-pass way.
butterworth_hp_mag_low(f, f_c, slope) ==
    LET n == Max(1, slope \div 6)
    IN  [i \in 1..Len(f) |-> Mag("Butterworth", "low", n, f_c, f[i])]

butterworth_hp_mag(f, f_c, slope) ==
    LET n == Max(1, slope \div 6)
    IN  [i \in 1..Len(f) |-> Mag("Butterworth", "high", n, f_c, f[i])]

linkwitz_riley_lp_mag(f, f_c, slope) ==
    LET n == Max(1, slope \div 12)
        H_bw == butterworth_lp_mag(f, f_c, n * 6)
    IN  [i \in 1..Len(f) |-> [H_bw[i] EXCEPT !.power = 2 * @]]

linkwitz_riley_hp_mag(f, f_c, slope) ==
    LET n == Max(1, slope \div 12)
        H_bw == butterworth_hp_mag(f, f_c, n * 6)
    IN  [i \in 1..Len(f) |-> [H_bw[i] EXCEPT !.power = 2 * @]]

\* |h| of scipy's analog Bessel prototype of order n.
bessel_mag(f, f_c, slope, btype) ==
    LET n == Max(1, slope \div 6)
    IN  [i \in 1..Len(f) |-> Mag("Bessel", btype, n, f_c, f[i])]

\* |h| of scipy's analog Chebyshev type I prototype of order n, ripple 1 dB.
chebyshev1_mag(f, f_c, slope, btype) ==
    LET n == Max(1, slope \div 6)
    IN  [i \in 1..Len(f) |-> Mag("Chebyshev", btype, n, f_c, f[i])]

\* Variant of the guard: the cutoff is not looked at.
StageSkipped_none(cutoff, filter_type) == filter_type = "None"

\* The guard both stages open with: the stage returns its input array.
StageSkipped(cutoff, filter_type) == filter_type = "None" \/ cutoff <= 0

\* curve_db + 20 * np.log10(H), elementwise, as a new array.
AddDb(curve_db, H) ==
    Handle(NoRef,
           [i \in 1..Len(curve_db.val) |->
               [curve_db.val[i] EXCEPT !.gains = Append(@, H[i])]])

Stage(err, arr) == [err |-> err, arr |-> arr]

apply_hp_filter(curve_db, freq, cutoff, filter_type, slope) ==
    IF StageSkipped(cutoff, filter_type) THEN Stage(Ok, curve_db)
    ELSE IF filter_type = "Linkwitz-Riley"
         THEN Stage(Ok, AddDb(curve_db, linkwitz_riley_hp_mag(freq, cutoff, slope)))
    ELSE IF filter_type = "Butterworth"
         THEN Stage(Ok, AddDb(curve_db, butterworth_hp_mag(freq, cutoff, slope)))
    ELSE IF filter_type = "Bessel"
         THEN Stage(Ok, AddDb(curve_db, bessel_mag(freq, cutoff, slope, "high")))
    ELSE IF filter_type = "Chebyshev"
         THEN Stage(Ok, AddDb(curve_db, chebyshev1_mag(freq, cutoff, slope, "high")))
    ELSE Stage(InvalidFilterFamily, curve_db)

apply_lp_filter(curve_db, freq, cutoff, filter_type, slope) ==
    IF StageSkipped(cutoff, filter_type) THEN Stage(Ok, curve_db)
    ELSE IF filter_type = "Linkwitz-Riley"
         THEN Stage(Ok, AddDb(curve_db, linkwitz_riley_lp_mag(freq, cutoff, slope)))
    ELSE IF filter_type = "Butterworth"
         THEN Stage(Ok, AddDb(curve_db, butterworth_lp_mag(freq, cutoff, slope)))
    ELSE IF filter_type = "Bessel"
         THEN Stage(Ok, AddDb(curve_db, bessel_mag(freq, cutoff, slope, "low")))
    ELSE IF filter_type = "Chebyshev"
         THEN Stage(Ok, AddDb(curve_db, chebyshev1_mag(freq, cutoff, slope, "low")))
    ELSE Stage(InvalidFilterFamily, curve_db)

----------------------------------------------------------------------------
(* logic/curves.py                                                         *)

\* The addresses the two dictionaries hold.
RegistryRefs == Range(HOUSE_CURVES) \cup Range(CUSTOM_CURVES)

\* What the caller still references of an earlier generate_target_curve.
HeldRefs == {returned} \ {NoRef}

\* Variants of the membership test: no test at all, and a test of the
\* predefined dictionary alone.
IsKnownCurve_any(name) == TRUE

IsKnownCurve_house(name) == name \in DOMAIN HOUSE_CURVES

\* name in HOUSE_CURVES or name in CUSTOM_CURVES
IsKnownCurve(name) ==
    name \in DOMAIN HOUSE_CURVES \/ name \in DOMAIN CUSTOM_CURVES

\* name in CUSTOM_CURVES
IsCustomCurve(name) == name \in DOMAIN CUSTOM_CURVES

\* get_selected_house_curve(): the stored array itself, not a copy.  The
\* second lookup raises KeyError when the name is in neither dictionary.
SelectedResolves ==
    \/ selected_curve_name \in DOMAIN HOUSE_CURVES
    \/ selected_curve_name \in DOMAIN CUSTOM_CURVES

get_selected_house_curve ==
    LET r == IF selected_curve_name \in DOMAIN HOUSE_CURVES
             THEN HOUSE_CURVES[selected_curve_name]
             ELSE CUSTOM_CURVES[selected_curve_name]
    IN  Handle(r, heap[r])

Call(op, args) == [op |-> op, args |-> args]

set_selected_house_curve(name) ==
    /\ call' = Call("set_selected_house_curve", <<name>>)
    /\ IF IsKnownCurve(name)
       THEN /\ selected_curve_name' = name
            /\ outcome' = Ok
       ELSE /\ outcome' = UnknownCurveName
            /\ UNCHANGED selected_curve_name
    /\ UNCHANGED <<heap, HOUSE_CURVES, CUSTOM_CURVES, returned, mag>>

\* Variants of the reset loop: over every stored curve, and over the
\* selected custom curve alone.
ResetTargets_all == RegistryRefs

ResetTargets_selected ==
    {CUSTOM_CURVES[n] : n \in DOMAIN CUSTOM_CURVES \cap {selected_curve_name}}

\* The arrays reset_custom_curves fills, and the value it fills them with.
ResetTargets == Range(CUSTOM_CURVES)

ResetValue == Flat(0)

\* Variant of the reset: the selection goes back to the predefined curve.
reset_custom_curves_reselect ==
    /\ call' = Call("reset_custom_curves", <<>>)
    /\ heap' = [r \in DOMAIN heap |->
                   IF r \in ResetTargets
                   THEN [i \in DOMAIN heap[r] |-> ResetValue]
                   ELSE heap[r]]
    /\ outcome' = Ok
    /\ selected_curve_name' = HouseName
    /\ UNCHANGED <<HOUSE_CURVES, CUSTOM_CURVES, returned, mag>>

reset_custom_curves ==
    /\ call' = Call("reset_custom_curves", <<>>)
    /\ heap' = [r \in DOMAIN heap |->
                   IF r \in ResetTargets
                   THEN [i \in DOMAIN heap[r] |-> ResetValue]
                   ELSE heap[r]]
    /\ outcome' = Ok
    /\ UNCHANGED <<HOUSE_CURVES, CUSTOM_CURVES, selected_curve_name, returned, mag>>

\* Variant of the indexing: a non-negative index lands one sample low.
ItemPosition_low(idx, len) ==
    IF 0 < idx /\ idx < len THEN idx
    ELSE IF -len <= idx /\ idx < 0 THEN idx + len + 1
    ELSE 0

\* ndarray item assignment arr[idx] = value on an array of length len: the
\* position written (1-based), or 0 when numpy raises IndexError.
ItemPosition(idx, len) ==
    IF 0 <= idx /\ idx < len THEN idx + 1
    ELSE IF -len <= idx /\ idx < 0 THEN idx + len + 1
    ELSE 0

\* Variant of the name check: any stored curve may be edited.
EditTarget_any(name) ==
    IF name \in DOMAIN CUSTOM_CURVES THEN CUSTOM_CURVES[name]
    ELSE IF name \in DOMAIN HOUSE_CURVES THEN HOUSE_CURVES[name]
    ELSE NoRef

\* The array update_custom_curve writes to: CUSTOM_CURVES[name], or NoRef
\* when the name check raises.
EditTarget(name) ==
    IF name \in DOMAIN CUSTOM_CURVES THEN CUSTOM_CURVES[name] ELSE NoRef

update_custom_curve(idx, name, value) ==
    /\ call' = Call("update_custom_curve", <<idx, name, value>>)
    /\ IF EditTarget(name) = NoRef
       THEN /\ outcome' = NotCustom
            /\ UNCHANGED heap
       ELSE LET r == EditTarget(name)
                pos == ItemPosition(idx, Len(heap[r]))
            IN  IF pos = 0
                THEN /\ outcome' = IndexOutOfRange
                     /\ UNCHANGED heap
                ELSE /\ heap' = [heap EXCEPT ![r][pos] = Flat(value)]
                     /\ outcome' = Ok
    /\ UNCHANGED <<HOUSE_CURVES, CUSTOM_CURVES, selected_curve_name, returned, mag>>

\* Variant of the load: the selected array itself, without .copy().
LoadSource_shared == get_selected_house_curve

\* The array load_custom_curve binds to the name.
LoadSource == ndarray_copy(get_selected_house_curve)

load_custom_curve(name) ==
    /\ call' = Call("load_custom_curve", <<name>>)
    /\ IF ~IsCustomCurve(name)
       THEN /\ outcome' = NotCustom
            /\ UNCHANGED <<heap, CUSTOM_CURVES>>
       ELSE IF ~SelectedResolves
       THEN /\ outcome' = KeyError
            /\ UNCHANGED <<heap, CUSTOM_CURVES>>
       ELSE LET a == LoadSource
                live == Range(HOUSE_CURVES) \cup HeldRefs
                        \cup {CUSTOM_CURVES[n] : n \in DOMAIN CUSTOM_CURVES \ {name}}
                r == Place(a, live)
            IN  /\ CUSTOM_CURVES' = [CUSTOM_CURVES EXCEPT ![name] = r]
                /\ heap' = Store(heap, a, r, live)
                /\ outcome' = Ok
    /\ UNCHANGED <<HOUSE_CURVES, selected_curve_name, returned, mag>>

\* Variant of the start: the predefined curve whatever the selection.
GenerateStart_house ==
    ndarray_copy(Handle(HOUSE_CURVES[HouseName], heap[HOUSE_CURVES[HouseName]]))

\* Variant of the start: the selected array itself, without .copy().
GenerateStart_shared == get_selected_house_curve

\* The array generate_target_curve starts from.
GenerateStart == ndarray_copy(get_selected_house_curve)

\* The two stages in order; a stage whose filter_type is 'None' is not
\* called, and an exception of the first stage ends the call.
HighPassed(curve, hp_cfg) ==
    IF hp_cfg.filter_type # "None"
    THEN apply_hp_filter(curve, FREQUENCIES, hp_cfg.cutoff,
                         hp_cfg.filter_type, hp_cfg.slope)
    ELSE Stage(Ok, curve)

LowPassed(curve, lp_cfg) ==
    IF lp_cfg.filter_type # "None"
    THEN apply_lp_filter(curve, FREQUENCIES, lp_cfg.cutoff,
                         lp_cfg.filter_type, lp_cfg.slope)
    ELSE Stage(Ok, curve)

\* Variant of the composition: the low-pass stage first.
TargetCurve_swapped(hp_cfg, lp_cfg) ==
    LET lp == LowPassed(GenerateStart, lp_cfg)
    IN  IF lp.err # Ok THEN lp ELSE HighPassed(lp.arr, hp_cfg)

TargetCurve(hp_cfg, lp_cfg) ==
    LET hp == HighPassed(GenerateStart, hp_cfg)
    IN  IF hp.err # Ok THEN hp ELSE LowPassed(hp.arr, lp_cfg)

generate_target_curve(hp_cfg, lp_cfg) ==
    /\ call' = Call("generate_target_curve", <<hp_cfg, lp_cfg>>)
    /\ IF ~SelectedResolves
       THEN /\ outcome' = KeyError
            /\ returned' = NoRef
            /\ heap' = [q \in RegistryRefs |-> heap[q]]
       ELSE LET res == TargetCurve(hp_cfg, lp_cfg)
            IN  IF res.err # Ok
                THEN /\ outcome' = res.err
                     /\ returned' = NoRef
                     /\ heap' = [q \in RegistryRefs |-> heap[q]]
                ELSE LET r == Place(res.arr, RegistryRefs)
                     IN  /\ returned' = r
                         /\ heap' = Store(heap, res.arr, r, RegistryRefs)
                         /\ outcome' = Ok
    /\ UNCHANGED <<HOUSE_CURVES, CUSTOM_CURVES, selected_curve_name, mag>>

\* FilterConfig(filter_type, slope, cutoff) called by the application.
NewFilterConfig(filter_type, slope, cutoff) ==
    /\ call' = Call("FilterConfig", <<filter_type, slope, cutoff>>)
    /\ outcome' = FilterConfig(filter_type, slope, cutoff).err
    /\ UNCHANGED <<heap, HOUSE_CURVES, CUSTOM_CURVES, selected_curve_name,
                   returned, mag>>

----------------------------------------------------------------------------
(* Inputs.                                                                 *)

N == Len(FREQUENCIES)

NameInputs == {HouseName} \cup CustomNames \cup {"Missing"}

\* Both ends of the grid, from inside and from MaxOver past them, and the
\* negative indices next to them.
IdxInputs ==
    {-1, N - 1}
    \cup {-(N + k) : k \in 1..MaxOver}
    \cup {N - 1 + k : k \in 1..MaxOver}

ValueInputs == {5}

\* Every member of FILTER_TYPES and a family that is none of them.
FamilyInputs == FILTER_TYPES \cup {"Elliptic"}

SlopeInputs == {18, 24}

CutoffInputs == {-1000, 0, 1000}

ConfigInputs ==
    {FilterConfig(t, s, c).obj :
        t \in FamilyInputs, s \in SlopeInputs, c \in CutoffInputs}

\* The partners a stage input is paired with: no stage, an applied stage and
\* a stage without cutoff.
PartnerInputs ==
    {FilterConfig("None", 24, 1000).obj,
     FilterConfig("Butterworth", 24, 1000).obj,
     FilterConfig("Butterworth", 24, 0).obj}

\* The one pair of stages the registry specification generates with.
HpDefault == FilterConfig("None", 24, 1000).obj

LpDefault == FilterConfig("Butterworth", 24, 1000).obj

----------------------------------------------------------------------------
(* The state after import of logic/curves.py.                              *)

Init ==
    /\ heap = [r \in 1..4 |-> IF r = 1 THEN FlatArray(DEFAULT_HOUSE_CURVE)
                              ELSE zeros_like(FREQUENCIES)]
    /\ HOUSE_CURVES = [n \in {HouseName} |-> 1]
    /\ CUSTOM_CURVES = [n \in CustomNames |->
                          CASE n = "Custom1" -> 2
                            [] n = "Custom2" -> 3
                            [] n = "Custom3" -> 4]
    /\ selected_curve_name = HouseName
    /\ returned = NoRef
    /\ call = Call("import", <<>>)
    /\ outcome = Ok
    /\ mag = <<>>

\* The registry under every name and index input, the generator under one
\* pair of stages.
Next ==
    \/ \E name \in NameInputs : set_selected_house_curve(name)
    \/ reset_custom_curves
    \/ \E idx \in IdxInputs, name \in NameInputs, value \in ValueInputs :
          update_custom_curve(idx, name, value)
    \/ \E name \in NameInputs : load_custom_curve(name)
    \/ generate_target_curve(HpDefault, LpDefault)
    \/ \E t \in {"None", "Butterworth", "Elliptic"} :
          NewFilterConfig(t, 24, 1000)

Spec == Init /\ [][Next]_vars

\* The generator under every stage input on either stage, the registry under
\* the edits of one custom curve.
NextGen ==
    \/ \E name \in {HouseName, "Custom1"} : set_selected_house_curve(name)
    \/ reset_custom_curves
    \/ \E value \in ValueInputs : update_custom_curve(N - 1, "Custom1", value)
    \/ load_custom_curve("Custom1")
    \/ \E hp_cfg \in ConfigInputs, lp_cfg \in PartnerInputs :
          generate_target_curve(hp_cfg, lp_cfg)
    \/ \E hp_cfg \in PartnerInputs, lp_cfg \in ConfigInputs :
          generate_target_curve(hp_cfg, lp_cfg)

SpecGen == Init /\ [][NextGen]_vars

----------------------------------------------------------------------------
(* The magnitude functions called on their own.                            *)

\* A call of one of the magnitude functions of logic/filters.py: the
\* registry is not involved.
Responded(fn, args, H) ==
    /\ call' = Call(fn, args)
    /\ mag' = H
    /\ outcome' = Ok
    /\ UNCHANGED <<heap, HOUSE_CURVES, CUSTOM_CURVES, selected_curve_name,
                   returned>>

\* The frequency vector, the cutoffs and the slopes of those calls.
FreqInputs == <<1, 2, 3>>

MagCutoffInputs == {1, 2, 3}

MaxSlope == 24

MagSlopeInputs == -6..MaxSlope

NextMag ==
    \/ \E f_c \in MagCutoffInputs, slope \in MagSlopeInputs :
          Responded("butterworth_lp_mag", <<FreqInputs, f_c, slope>>,
                    butterworth_lp_mag(FreqInputs, f_c, slope))
    \/ \E f_c \in MagCutoffInputs, slope \in MagSlopeInputs :
          Responded("butterworth_hp_mag", <<FreqInputs, f_c, slope>>,
                    butterworth_hp_mag(FreqInputs, f_c, slope))
    \/ \E f_c \in MagCutoffInputs, slope \in MagSlopeInputs :
          Responded("linkwitz_riley_lp_mag", <<FreqInputs, f_c, slope>>,
                    linkwitz_riley_lp_mag(FreqInputs, f_c, slope))
    \/ \E f_c \in MagCutoffInputs, slope \in MagSlopeInputs :
          Responded("linkwitz_riley_hp_mag", <<FreqInputs, f_c, slope>>,
                    linkwitz_riley_hp_mag(FreqInputs, f_c, slope))
    \/ \E f_c \in MagCutoffInputs, slope \in MagSlopeInputs,
          band \in {"low", "high"} :
          Responded("bessel_mag", <<FreqInputs, f_c, slope, band>>,
                    bessel_mag(FreqInputs, f_c, slope, band))
    \/ \E f_c \in MagCutoffInputs, slope \in MagSlopeInputs,
          band \in {"low", "high"} :
          Responded("chebyshev1_mag", <<FreqInputs, f_c, slope, band>>,
                    chebyshev1_mag(FreqInputs, f_c, slope, band))

SpecMag == Init /\ [][NextMag]_vars

----------------------------------------------------------------------------
(* Properties.                                                             *)

\* The address and the samples stored under a name.
RefOf(name) ==
    IF name \in DOMAIN HOUSE_CURVES THEN HOUSE_CURVES[name]
    ELSE CUSTOM_CURVES[name]

Stored(name) == heap[RefOf(name)]

AllNames == DOMAIN HOUSE_CURVES \cup DOMAIN CUSTOM_CURVES

\* The samples of every stored curve, by name.
Samples == [n \in AllNames |-> Stored(n)]

Supported == FILTER_TYPES \ {"None"}

\* C1: in every reachable state, after failing calls too, the selected name
\* is a key of HOUSE_CURVES or of CUSTOM_CURVES, and no call has failed on
\* looking the selected curve up.
C1_SelectionResolves ==
    /\ selected_curve_name \in DOMAIN HOUSE_CURVES \cup DOMAIN CUSTOM_CURVES
    /\ outcome # KeyError

\* A set_selected_house_curve call has failed while a custom curve was
\* selected.
C1_Witness ==
    /\ call.op = "set_selected_house_curve"
    /\ outcome = UnknownCurveName
    /\ selected_curve_name \in CustomNames

\* C2: in every reachable state the predefined entry "House Curve" exists and
\* every one of its samples has the value it had at import.
C2_HouseCurveImmutable ==
    /\ DOMAIN HOUSE_CURVES = {HouseName}
    /\ HOUSE_CURVES[HouseName] \in DOMAIN heap
    /\ heap[HOUSE_CURVES[HouseName]] = FlatArray(DEFAULT_HOUSE_CURVE)

\* A custom curve was loaded from the predefined curve and then edited, and
\* the custom curves have been reset since.
C2_Witness ==
    /\ \E n \in CustomNames :
          /\ Stored(n)[1] = Flat(DEFAULT_HOUSE_CURVE[1])
          /\ Stored(n)[N] = Flat(5)
    /\ \E n \in CustomNames : Stored(n) = zeros_like(FREQUENCIES)
    /\ call.op = "generate_target_curve"

\* C3: update_custom_curve with a predefined name raises NotCustom for every
\* index and value, and changes no stored sample, no dictionary and not the
\* selection.
C3_PredefinedNotEditable ==
    [][(call'.op = "update_custom_curve" /\ call'.args[2] \in DOMAIN HOUSE_CURVES)
          => (outcome' = NotCustom /\ UNCHANGED registry)]_vars

\* update_custom_curve was called on "House Curve" with an index of the grid.
C3_Witness ==
    /\ call.op = "update_custom_curve"
    /\ call.args[2] = HouseName
    /\ call.args[1] = N - 1
    /\ outcome = NotCustom

\* C4: update_custom_curve on a custom curve raises IndexOutOfRange for every
\* index outside [0, 31), negative ones included, and then changes no sample.
C4_OutsideGridRejected ==
    [][(/\ call'.op = "update_custom_curve"
        /\ call'.args[2] \in DOMAIN CUSTOM_CURVES
        /\ (call'.args[1] < 0 \/ call'.args[1] >= N))
          => (outcome' = IndexOutOfRange /\ heap' = heap)]_vars

\* C5: set_selected_house_curve with a name in neither dictionary raises
\* UnknownCurveName and keeps the selection; with a stored name it selects
\* that name; in both cases no stored sample and no dictionary changes.
C5_SetSelected ==
    [][call'.op = "set_selected_house_curve"
          => /\ IF call'.args[1] \in AllNames
                THEN outcome' = Ok /\ selected_curve_name' = call'.args[1]
                ELSE /\ outcome' = UnknownCurveName
                     /\ selected_curve_name' = selected_curve_name
             /\ UNCHANGED <<heap, HOUSE_CURVES, CUSTOM_CURVES>>]_vars

\* A custom curve is selected and holds an edit.
C5_Witness ==
    /\ call.op = "set_selected_house_curve"
    /\ outcome = Ok
    /\ selected_curve_name \in CustomNames
    /\ Stored(selected_curve_name)[N] = Flat(5)

\* No two names share an array, and no name shares one with a returned curve.
Unshared ==
    /\ \A m, n \in AllNames : m # n => RefOf(m) # RefOf(n)
    /\ returned \notin RegistryRefs

\* C6: load_custom_curve on a custom name makes that curve equal, sample for
\* sample, to the selected curve and changes the samples of no other curve;
\* the array it stores is shared with no other name; when the name is the
\* selected one no sample changes; on a name that is not custom it raises
\* NotCustom and changes nothing.
C6_LoadCopiesSelected ==
    [][call'.op = "load_custom_curve"
          => \E name \in NameInputs :
                /\ name = call'.args[1]
                /\ IF name \in DOMAIN CUSTOM_CURVES
                   THEN /\ outcome' = Ok
                        /\ Stored(name)' = Stored(selected_curve_name)
                        /\ \A n \in AllNames \ {name} : Stored(n)' = Stored(n)
                        /\ Unshared'
                        /\ name = selected_curve_name => Samples' = Samples
                        /\ UNCHANGED <<HOUSE_CURVES, selected_curve_name>>
                   ELSE outcome' = NotCustom /\ UNCHANGED registry]_vars

\* A custom curve now holds the edited samples of another, selected, custom
\* curve.
C6_Witness ==
    /\ call.op = "load_custom_curve"
    /\ outcome = Ok
    /\ selected_curve_name \in CustomNames
    /\ call.args[1] # selected_curve_name
    /\ Stored(call.args[1])[N] = Flat(5)
    /\ Stored(call.args[1])[1] = Flat(DEFAULT_HOUSE_CURVE[1])

\* C7: reset_custom_curves, from any state, leaves every sample of every
\* custom curve 0.0 and every predefined sample as it was, and does not move
\* the selection, so that a selected custom curve reads as all zeros.
C7_ResetZeroesCustom ==
    [][call'.op = "reset_custom_curves"
          => /\ outcome' = Ok
             /\ \A n \in DOMAIN CUSTOM_CURVES' :
                   Stored(n)' = zeros_like(FREQUENCIES)
             /\ \A n \in DOMAIN HOUSE_CURVES : Stored(n)' = Stored(n)
             /\ selected_curve_name \in DOMAIN CUSTOM_CURVES
                   => get_selected_house_curve'.val = zeros_like(FREQUENCIES)
             /\ UNCHANGED <<HOUSE_CURVES, CUSTOM_CURVES, selected_curve_name>>]_vars

\* The custom curves were reset while a custom curve was selected.
C7_Witness ==
    /\ call.op = "reset_custom_curves"
    /\ selected_curve_name \in CustomNames
    /\ Stored(selected_curve_name) = zeros_like(FREQUENCIES)

\* C8: generate_target_curve with both stages 'None' returns a curve equal,
\* sample for sample, to the selected curve, whatever the slopes and cutoffs.
C8_BothNoneIsIdentity ==
    (/\ call.op = "generate_target_curve"
     /\ call.args[1].filter_type = "None"
     /\ call.args[2].filter_type = "None")
        => /\ outcome = Ok
           /\ returned \in DOMAIN heap
           /\ heap[returned] = Stored(selected_curve_name)

\* Both stages were 'None' while an edited custom curve was selected.
C8_Witness ==
    /\ call.op = "generate_target_curve"
    /\ call.args[1].filter_type = "None"
    /\ call.args[2].filter_type = "None"
    /\ selected_curve_name \in CustomNames
    /\ Stored(selected_curve_name)[N] = Flat(5)
    /\ outcome = Ok

\* The configuration with its stage switched off.
Disabled(cfg) == [cfg EXCEPT !.filter_type = "None"]

\* The outcome and the returned samples agree with those of a call.
SameAs(res) ==
    /\ outcome = res.err
    /\ res.err = Ok => (returned \in DOMAIN heap /\ heap[returned] = res.arr.val)

\* C9: a stage of a supported family whose cutoff is <= 0 passes the curve
\* through: the call returns what it returns with that stage 'None', for the
\* high-pass and for the low-pass stage and for any slope.
C9_NoCutoffPassesThrough ==
    call.op = "generate_target_curve"
        => LET hp == call.args[1]
               lp == call.args[2]
           IN  /\ (hp.filter_type \in Supported /\ hp.cutoff <= 0)
                     => SameAs(TargetCurve(Disabled(hp), lp))
               /\ (lp.filter_type \in Supported /\ lp.cutoff <= 0)
                     => SameAs(TargetCurve(hp, Disabled(lp)))

\* A low-pass stage of a supported family without cutoff followed an applied
\* high-pass stage.
C9_Witness ==
    /\ call.op = "generate_target_curve"
    /\ call.args[1].filter_type \in Supported /\ call.args[1].cutoff > 0
    /\ call.args[2].filter_type \in Supported /\ call.args[2].cutoff <= 0
    /\ outcome = Ok

\* C10: FilterConfig with a family outside FILTER_TYPES raises
\* InvalidFilterFamily, so that no configuration with such a family exists.
C10_UnknownFamilyRejected ==
    (call.op = "FilterConfig" /\ call.args[1] \notin FILTER_TYPES)
        => outcome = InvalidFilterFamily

\* C11: generate_target_curve with a high-pass or low-pass stage of a family
\* outside FILTER_TYPES raises InvalidFilterFamily and returns no curve, for
\* every slope and every cutoff of that stage, cutoffs <= 0 included.
C11_UnknownFamilyRaises ==
    (/\ call.op = "generate_target_curve"
     /\ \/ call.args[1].filter_type \notin FILTER_TYPES
        \/ call.args[2].filter_type \notin FILTER_TYPES)
        => (outcome = InvalidFilterFamily /\ returned = NoRef)

\* The magnitude response of a supported family in one direction.
Response(family, btype, f_c, slope) ==
    CASE family = "Butterworth" /\ btype = "high" ->
            butterworth_hp_mag(FREQUENCIES, f_c, slope)
      [] family = "Butterworth" /\ btype = "low" ->
            butterworth_lp_mag(FREQUENCIES, f_c, slope)
      [] family = "Linkwitz-Riley" /\ btype = "high" ->
            linkwitz_riley_hp_mag(FREQUENCIES, f_c, slope)
      [] family = "Linkwitz-Riley" /\ btype = "low" ->
            linkwitz_riley_lp_mag(FREQUENCIES, f_c, slope)
      [] family = "Bessel" -> bessel_mag(FREQUENCIES, f_c, slope, btype)
      [] family = "Chebyshev" -> chebyshev1_mag(FREQUENCIES, f_c, slope, btype)

\* What a stage adds to sample i: nothing when its family is 'None' or its
\* cutoff is <= 0, else the dB of its response at FREQUENCIES[i].
StageGain(cfg, btype, i) ==
    IF cfg.filter_type = "None" \/ cfg.cutoff <= 0 THEN <<>>
    ELSE <<Response(cfg.filter_type, btype, cfg.cutoff, cfg.slope)[i]>>

\* C15: the curve generate_target_curve returns has one sample per grid
\* frequency, in grid order, and sample i is sample i of the curve selected
\* at the call plus the high-pass contribution at FREQUENCIES[i] plus the
\* low-pass contribution at FREQUENCIES[i], each stage added at most once
\* and the high-pass one first.
C15_BaselinePlusStages ==
    (call.op = "generate_target_curve" /\ outcome = Ok)
        => /\ returned \in DOMAIN heap
           /\ DOMAIN heap[returned] = 1..Len(FREQUENCIES)
           /\ \A i \in 1..Len(FREQUENCIES) :
                 /\ heap[returned][i].db = Stored(selected_curve_name)[i].db
                 /\ heap[returned][i].gains =
                       Stored(selected_curve_name)[i].gains
                       \o StageGain(call.args[1], "high", i)
                       \o StageGain(call.args[2], "low", i)
                 /\ \A k \in DOMAIN heap[returned][i].gains :
                       heap[returned][i].gains[k].f = FREQUENCIES[i]

\* A Linkwitz-Riley high-pass and a Butterworth low-pass were applied to an
\* edited custom curve.
C15_Witness ==
    /\ call.op = "generate_target_curve"
    /\ outcome = Ok
    /\ call.args[1].filter_type = "Linkwitz-Riley" /\ call.args[1].cutoff > 0
    /\ call.args[2].filter_type = "Butterworth" /\ call.args[2].cutoff > 0
    /\ selected_curve_name \in CustomNames
    /\ Stored(selected_curve_name)[N] = Flat(5)
    /\ Len(heap[returned][N].gains) = 2

\* C16: an update_custom_curve that returns normally for a custom name and an
\* index in [0, 31) sets that sample of that curve to the value and changes
\* nothing else: no other sample of the curve, no sample of another curve,
\* no dictionary key or binding, and not the selection.
C16_UpdateWritesOneSample ==
    [][(/\ call'.op = "update_custom_curve"
        /\ outcome' = Ok
        /\ 0 <= call'.args[1] /\ call'.args[1] < N)
          => \E name \in DOMAIN CUSTOM_CURVES :
                /\ name = call'.args[2]
                /\ Stored(name)'[call'.args[1] + 1] = Flat(call'.args[3])
                /\ \A i \in 1..N :
                      i # call'.args[1] + 1 => Stored(name)'[i] = Stored(name)[i]
                /\ \A n \in AllNames \ {name} : Stored(n)' = Stored(n)
                /\ UNCHANGED <<HOUSE_CURVES, CUSTOM_CURVES, selected_curve_name>>]_vars

\* The last sample of a custom curve loaded from the predefined curve was
\* updated while that custom curve was selected.
C16_Witness ==
    /\ call.op = "update_custom_curve"
    /\ outcome = Ok
    /\ call.args[1] = N - 1
    /\ call.args[2] = selected_curve_name
    /\ Stored(call.args[2])[N] = Flat(call.args[3])
    /\ Stored(call.args[2])[1] = Flat(DEFAULT_HOUSE_CURVE[1])

\* C17: the selection is "House Curve" at import and changes only in a
\* set_selected_house_curve call that returns normally, to the name it was
\* given: update_custom_curve, load_custom_curve, reset_custom_curves and
\* generate_target_curve, failing or not, and a failing
\* set_selected_house_curve leave it as it is, also when they edit the
\* selected curve.
C17_SelectionMovesOnlyOnSet ==
    /\ selected_curve_name = HouseName
    /\ [][/\ selected_curve_name' # selected_curve_name
             => /\ call'.op = "set_selected_house_curve"
                /\ outcome' = Ok
                /\ selected_curve_name' = call'.args[1]
          /\ (call'.op # "set_selected_house_curve" \/ outcome' # Ok)
             => selected_curve_name' = selected_curve_name]_vars

\* The selected custom curve was replaced by load_custom_curve after it had
\* been edited, and is still the selected one.
C17_Witness ==
    /\ call.op = "load_custom_curve"
    /\ outcome = Ok
    /\ call.args[1] = selected_curve_name
    /\ Stored(selected_curve_name)[N] = Flat(5)

\* C18: generate_target_curve changes no stored sample, no dictionary and not
\* the selection, and the array it returns is bound to no name; a curve that
\* was returned keeps every sample through later update_custom_curve,
\* load_custom_curve, reset_custom_curves and set_selected_house_curve
\* calls, whatever the stages were that produced it.
C18_ReturnedCurveIsFresh ==
    [][/\ call'.op = "generate_target_curve"
          => /\ Samples' = Samples
             /\ UNCHANGED <<HOUSE_CURVES, CUSTOM_CURVES, selected_curve_name>>
             /\ returned' \notin RegistryRefs'
       /\ call'.op # "generate_target_curve"
          => /\ returned' = returned
             /\ returned # NoRef
                => (returned \in DOMAIN heap' /\ heap'[returned] = heap[returned])]_vars

\* A curve returned with both stages skipped from an edited, selected custom
\* curve still holds the edit after that custom curve was reset.
C18_Witness ==
    /\ call.op = "reset_custom_curves"
    /\ selected_curve_name \in CustomNames
    /\ Stored(selected_curve_name) = zeros_like(FREQUENCIES)
    /\ returned \in DOMAIN heap
    /\ heap[returned][N] = Flat(5)

----------------------------------------------------------------------------
(* The magnitude functions (SpecMag).                                      *)

MagOps6 == {"butterworth_lp_mag", "butterworth_hp_mag", "bessel_mag",
            "chebyshev1_mag"}

MagOps12 == {"linkwitz_riley_lp_mag", "linkwitz_riley_hp_mag"}

\* n is max(1, floor(s / step)), said without dividing.
OrderOf(n, s, step) ==
    /\ n >= 1
    /\ s < step => n = 1
    /\ s >= step => (step * n <= s /\ s < step * n + step)

\* C12: for every integer slope the order used is at least 1 and is
\* max(1, floor(slope/6)) for Butterworth, Bessel and Chebyshev and
\* max(1, floor(slope/12)) for Linkwitz-Riley, whose response is the square
\* of the Butterworth response of that order; a slope below 6 gives order
\* 1, and a Linkwitz-Riley slope gives the response of the multiple of 12
\* at or below it.
C12_OrderAtLeastOne ==
    /\ call.op \in MagOps6 =>
          \A i \in DOMAIN mag :
             /\ OrderOf(mag[i].n, call.args[3], 6)
             /\ call.args[3] < 6 => mag[i].n = 1
             /\ mag[i].power = 1
    /\ call.op \in MagOps12 =>
          /\ \A i \in DOMAIN mag :
                /\ OrderOf(mag[i].n, call.args[3], 12)
                /\ mag[i].family = "Butterworth"
                /\ mag[i].power = 2
          /\ call.op = "linkwitz_riley_lp_mag" =>
                /\ mag = linkwitz_riley_lp_mag(call.args[1], call.args[2],
                            call.args[3] - (call.args[3] % 12))
                /\ \A i \in DOMAIN mag :
                      [mag[i] EXCEPT !.power = 1]
                         = butterworth_lp_mag(call.args[1], call.args[2],
                                              6 * mag[i].n)[i]
          /\ call.op = "linkwitz_riley_hp_mag" =>
                /\ mag = linkwitz_riley_hp_mag(call.args[1], call.args[2],
                            call.args[3] - (call.args[3] % 12))
                /\ \A i \in DOMAIN mag :
                      [mag[i] EXCEPT !.power = 1]
                         = butterworth_hp_mag(call.args[1], call.args[2],
                                              6 * mag[i].n)[i]

C12_Witness ==
    /\ call.op = "linkwitz_riley_lp_mag"
    /\ call.args[3] = 18
    /\ mag # <<>>
    /\ \A i \in DOMAIN mag : mag[i].n = 1
    /\ mag = linkwitz_riley_lp_mag(call.args[1], call.args[2], 12)

\* C13: a Butterworth low-pass whose slope is a positive multiple of 6 has
\* squared magnitude exactly 1/2 at the sample whose frequency is the
\* cutoff, whatever the order.
C13_HalfPowerAtCutoff ==
    (/\ call.op = "butterworth_lp_mag"
     /\ call.args[2] > 0
     /\ call.args[3] > 0
     /\ call.args[3] % 6 = 0)
        => \A i \in DOMAIN mag :
              call.args[1][i] = call.args[2]
                 => /\ mag[i].power = 1
                    /\ mag[i].family = "Butterworth"
                    /\ 2 * HSquared(mag[i]).num = HSquared(mag[i]).den

C13_Witness ==
    /\ call.op = "butterworth_lp_mag"
    /\ call.args[3] = 24
    /\ \E i \in DOMAIN mag :
          /\ call.args[1][i] = call.args[2]
          /\ mag[i].n = 4
          /\ 2 * HSquared(mag[i]).num = HSquared(mag[i]).den

\* a/b <= c/d for fractions of positive denominators.
Leq(x, y) == x.num * y.den <= y.num * x.den

\* C14: for Butterworth and Linkwitz-Riley at a fixed cutoff and order, the
\* low-pass magnitude does not rise with frequency at and above the cutoff,
\* and the high-pass magnitude does not rise as frequency falls at and
\* below the cutoff.  Magnitudes of one call share their power, so they
\* are ordered as their HSquared values are.
C14_MonotonicAttenuation ==
    /\ call.op \in {"butterworth_lp_mag", "linkwitz_riley_lp_mag"} =>
          \A i, j \in DOMAIN mag :
             (call.args[2] <= call.args[1][i]
                 /\ call.args[1][i] <= call.args[1][j])
                => /\ mag[i].power = mag[j].power
                   /\ Leq(HSquared(mag[j]), HSquared(mag[i]))
    /\ call.op \in {"butterworth_hp_mag", "linkwitz_riley_hp_mag"} =>
          \A i, j \in DOMAIN mag :
             (call.args[1][i] <= call.args[1][j]
                 /\ call.args[1][j] <= call.args[2])
                => /\ mag[i].power = mag[j].power
                   /\ Leq(HSquared(mag[i]), HSquared(mag[j]))

C14_Witness ==
    /\ call.op = "linkwitz_riley_hp_mag"
    /\ call.args[2] = 3
    /\ call.args[3] = 24
    /\ \E i, j \in DOMAIN mag :
          /\ call.args[1][i] < call.args[1][j]
          /\ call.args[1][j] <= call.args[2]
          /\ ~Leq(HSquared(mag[j]), HSquared(mag[i]))

============================================================================
